---- MODULE Spec2Model ----
(***************************************************************************)
(* A model of the FFI bridge of application-services:                      *)
(*   components/support/ffi   call_with_result + the IntoFfi marshaling    *)
(*   components/places/ffi    the exported places_* entry points           *)
(*   components/support/guid  Guid: validity, construction, comparison     *)
(*   logins-sql/tests         the test clients and their helpers           *)
(***************************************************************************)
EXTENDS Integers, Sequences, FiniteSets, TLC

VARIABLES
    proc,        \* the process: "alive", "aborted" (std::process::abort) or
                 \* "unwound" (a panic left an extern "C" function)
    pc,          \* the bridged call: "running", "returned" (it has just returned), or
                 \* "idle" (no call yet, or the caller has acted since the last return)
    slot,        \* the caller's ExternError (*out_error)
    entrySlot,   \* what *out_error held when the current/last call was entered
    call,        \* the current/last call: its mode and what its callback does
    ret,         \* the R::Value the last call returned
    slotWrites,  \* the values the current/last call stored into *out_error, in order
    faulted,     \* TRUE once some earlier call has caught a panic
    cstrings,    \* the heap of CStrings handed out by into_raw: address -> text
    handles,     \* the heap of Box<PlacesDb> handed out by Box::into_raw: address -> db
    heldHandles, \* the connection pointers the foreign caller has received and not destroyed
    heldStrings, \* the string pointers the foreign caller has received and not destroyed
    last,        \* the last places_* entry point called, its inputs and its result
    given,       \* the value a library function is applied to
    yielded,     \* the function applied to it, and what it gave
    local,       \* logins: what each client's engine answers when asked for the login
    server,      \* logins: what the sync server holds
    hist         \* logins: how far the test has come

vars == <<proc, pc, slot, entrySlot, call, ret, slotWrites, faulted,
          cstrings, handles, heldHandles, heldStrings, last, given, yielded,
          local, server, hist>>

callVars == <<slot, entrySlot, call, ret, slotWrites, faulted>>
bridgeVars == <<pc, callVars>>
placesVars == <<handles, heldHandles, heldStrings, last>>
pureVars == <<given, yielded>>
syncVars == <<local, server, hist>>
otherVars == <<pureVars, syncVars>>
ffiVars == <<proc, bridgeVars, cstrings, placesVars>>

----------------------------------------------------------------------------
(* Bounds *)

\* at most this many CStrings (and as many connections) are live at once
MaxLive == 2

Addrs == 1..MaxLive

----------------------------------------------------------------------------
(* ExternError -- components/support/ffi/src/error.rs *)

\* ptr::null_mut()
NULL == 0

\* the reserved code of a caught panic
RESERVED_FAULT_CODE == -1

\* a message is <<>> (null) or <<text>> (an owned text)
ExternError(code, message) == [code |-> code, message |-> message]

\* ExternError::success()
ExternError_success == ExternError(0, <<>>)

\* ExternError::default()
ExternError_default == ExternError_success

\* impl From<Box<Any + Send>> for ExternError: the reserved code, the panic's text
ExternError_from_panic(payload) == ExternError(RESERVED_FAULT_CODE, <<payload>>)

----------------------------------------------------------------------------
(* Rust values of the types R that cross the boundary *)

\* u32 stands for the primitives of impl_into_ffi_for_primitive!, which all
\* cross by value
RTypes == {"u32", "String", "Option<u32>", "Option<String>", "Vec<T>"}

U32(n) == [ty |-> "u32", some |-> TRUE, n |-> n, s |-> "", elems |-> <<>>]
Str(s) == [ty |-> "String", some |-> TRUE, n |-> 0, s |-> s, elems |-> <<>>]
OptionU32(some, n) == [ty |-> "Option<u32>", some |-> some, n |-> n, s |-> "", elems |-> <<>>]
OptionString(some, s) == [ty |-> "Option<String>", some |-> some, n |-> 0, s |-> s, elems |-> <<>>]
VecT(elems) == [ty |-> "Vec<T>", some |-> TRUE, n |-> 0, s |-> "", elems |-> elems]

\* an element of a by-JSON type T: it serializes as the number n, or its
\* Serialize impl reports the error msg
JsonT(n) == [n |-> n, serializes |-> TRUE, msg |-> ""]
Unserializable == [n |-> 0, serializes |-> FALSE, msg |-> "cannot serialize"]

U32Values == {U32(0), U32(5)}
\* a String a callback returns holds JSON text, as the entry points' strings do
StringValues == {Str("[]")}
OptionValues ==
    {OptionU32(FALSE, 0), OptionU32(TRUE, 0), OptionU32(TRUE, 5),
     OptionString(FALSE, ""), OptionString(TRUE, "[]")}
VecValues == {VecT(<<>>), VecT(<<JsonT(1), JsonT(2), JsonT(3)>>), VecT(<<JsonT(1), Unserializable>>)}

ValuesOf(R) ==
    IF R = "u32" THEN U32Values
    ELSE IF R = "String" THEN StringValues
    ELSE IF R \in {"Option<u32>", "Option<String>"} THEN {v \in OptionValues : v.ty = R}
    ELSE VecValues

----------------------------------------------------------------------------
(* serde_json::to_string(&Vec<T>) *)

RECURSIVE JoinJson(_)
JoinJson(elems) ==
    IF Len(elems) = 0 THEN ""
    ELSE IF Len(elems) = 1 THEN ToString(elems[1].n)
    ELSE ToString(elems[1].n) \o "," \o JoinJson(Tail(elems))

RECURSIVE JoinDebug(_)
JoinDebug(elems) ==
    IF Len(elems) = 0 THEN ""
    ELSE IF Len(elems) = 1 THEN ToString(elems[1].n)
    ELSE ToString(elems[1].n) \o ", " \o JoinDebug(Tail(elems))

\* the Debug form of the serde_json::Error that a Serialize impl's custom
\* error msg becomes
serde_json_Error_debug(msg) == "Error(\"" \o msg \o "\", line: 0, column: 0)"

\* the error of the first element that does not serialize
FirstError(elems) ==
    LET i == CHOOSE k \in 1..Len(elems) :
                 ~elems[k].serializes /\ \A j \in 1..(k - 1) : elems[j].serializes
    IN  serde_json_Error_debug(elems[i].msg)

\* the text is that of the Debug format of the Vec, which puts ", " between elements
debug_format_to_string(elems) ==
    [is_err |-> \E i \in 1..Len(elems) : ~elems[i].serializes,
     text |-> "[" \o JoinDebug(elems) \o "]",
     err |-> IF \E i \in 1..Len(elems) : ~elems[i].serializes THEN FirstError(elems) ELSE ""]

serde_json_to_string(elems) ==
    IF \E i \in 1..Len(elems) : ~elems[i].serializes
    THEN [is_err |-> TRUE, text |-> "", err |-> FirstError(elems)]
    ELSE [is_err |-> FALSE, text |-> "[" \o JoinJson(elems) \o "]", err |-> ""]

----------------------------------------------------------------------------
(* IntoFfi -- components/support/ffi/src/into_ffi.rs *)

\* the payload of Result::unwrap() on Err(e), e_debug being the Debug form of e.
\* The message puts Result::unwrap() and Err between grave accents (U+0060),
\* a character a TLA+ string cannot hold: the apostrophe stands for it here.
UnwrapPanic(e_debug) == "called 'Result::unwrap()' on an 'Err' value: " \o e_debug

\* the outcome of a conversion: it panics, or yields the boundary value o and
\* (alloc = <<text>>) leaves one new CString holding text at address o
Converted(o, alloc) == [panics |-> FALSE, payload |-> "", o |-> o, alloc |-> alloc]
ConversionPanics(payload) == [panics |-> TRUE, payload |-> payload, o |-> 0, alloc |-> <<>>]

\* R::ffi_default()
ffi_default(R) ==
    IF R \in {"Vec<T>", "String", "Option<String>"}
    THEN NULL     \* ptr::null_mut(); Option<String>: T::ffi_default()
    ELSE 0        \* u32: Default::default(); Option<u32>: T::ffi_default()

\* rust_string_to_c(s): the string moves to the heap, at the free address a
rust_string_to_c(s, a) == Converted(a, <<s>>)

\* a failed serialization yields the null pointer in place of the unwrap
Vec_into_ffi_value_null_on_error(v, a) ==
    LET as_string == serde_json_to_string(v.elems)
    IN  IF as_string.is_err THEN Converted(NULL, <<>>)
        ELSE rust_string_to_c(as_string.text, a)

\* <Vec<T> as IntoFfi>::into_ffi_value
Vec_into_ffi_value(v, a) ==
    LET as_string == serde_json_to_string(v.elems)
    IN  IF as_string.is_err THEN ConversionPanics(UnwrapPanic(as_string.err))
        ELSE rust_string_to_c(as_string.text, a)

\* <u32 as IntoFfi>::into_ffi_value
u32_into_ffi_value(v) == Converted(v.n, <<>>)

\* <String as IntoFfi>::into_ffi_value
String_into_ffi_value(v, a) == rust_string_to_c(v.s, a)

\* the arm Some(v) yields T::ffi_default() like the arm None
Option_into_ffi_value_some_yields_default(v, a) == Converted(ffi_default(v.ty), <<>>)

\* <Option<T> as IntoFfi>::into_ffi_value, with T = u32 and T = String
Option_into_ffi_value(v, a) ==
    IF v.some
    THEN (IF v.ty = "Option<String>" THEN String_into_ffi_value(Str(v.s), a)
          ELSE u32_into_ffi_value(U32(v.n)))
    ELSE Converted(ffi_default(v.ty), <<>>)

\* v.into_ffi_value(), a being the address the allocator would hand out
into_ffi_value(v, a) ==
    IF v.ty = "u32" THEN u32_into_ffi_value(v)
    ELSE IF v.ty = "String" THEN String_into_ffi_value(v, a)
    ELSE IF v.ty \in {"Option<u32>", "Option<String>"} THEN Option_into_ffi_value(v, a)
    ELSE Vec_into_ffi_value(v, a)

\* whether v.into_ffi_value() allocates
Allocates(v) ==
    \/ v.ty = "Vec<T>" /\ ~serde_json_to_string(v.elems).is_err
    \/ v.ty = "String"
    \/ v.ty = "Option<String>" /\ v.some

----------------------------------------------------------------------------
(* The callbacks handed to call_with_result, and the caller's E: Into<ExternError> *)

Errors == {"NotFound", "Locked", "Unmappable"}
PanicTexts == {"divide by zero", "index out of bounds"}
IntoPanic == "error conversion failed"

\* e.into(): the mapping the caller supplies for its error type
Into_ExternError(e) ==
    IF e = "NotFound" THEN [panics |-> FALSE, payload |-> "", err |-> ExternError(3, <<"not found">>)]
    ELSE IF e = "Locked" THEN [panics |-> FALSE, payload |-> "", err |-> ExternError(7, <<"database is locked">>)]
    ELSE [panics |-> TRUE, payload |-> IntoPanic, err |-> ExternError_success]

ReturnsOk(v) == [kind |-> "Ok", R |-> v.ty, val |-> v, err |-> "none", desc |-> ""]
ReturnsErr(R, e) == [kind |-> "Err", R |-> R, val |-> U32(0), err |-> e, desc |-> ""]
Panics(R, d) == [kind |-> "Panic", R |-> R, val |-> U32(0), err |-> "none", desc |-> d]

\* a callback that never returns (it loops or blocks for ever)
Diverges(R) == [kind |-> "Diverges", R |-> R, val |-> U32(0), err |-> "none", desc |-> ""]

Callbacks ==
    {ReturnsOk(v) : v \in U32Values \cup StringValues \cup OptionValues \cup VecValues}
    \cup {ReturnsErr(R, e) : R \in RTypes, e \in Errors}
    \cup {Panics(R, d) : R \in RTypes, d \in PanicTexts}
    \cup {Diverges(R) : R \in RTypes}

----------------------------------------------------------------------------
(* call_with_result -- components/support/ffi/src/lib.rs *)

\* line 40: call_with_result passes abort_on_panic = false
call_with_result_abort_on_panic == FALSE

\* the flag is not passed on: the abort variant behaves like the default one
abort_flag_not_passed == FALSE

\* line 85: abort_on_panic::call_with_result passes abort_on_panic = true
abort_on_panic_call_with_result_abort_on_panic == TRUE

abort_on_panic_of(mode) ==
    IF mode = "abort" THEN abort_on_panic_call_with_result_abort_on_panic
    ELSE call_with_result_abort_on_panic

\* the slot is reset only when it is found to hold an error
EntryWrites_OnlyIfSet(old) ==
    IF old = ExternError_success THEN <<>> ELSE <<ExternError_success>>

\* the slot is not reset on entry
EntryWrites_None(old) == <<>>

\* line 49: the stores into *out_error made before the callback runs
EntryWrites(old) == <<ExternError_success>>

\* the call goes on without the callback having come back
CallbackComesBack_not_awaited(cb) == TRUE

\* line 52: callback() is called on the calling thread; the code after it
\* runs once the callback has returned or panicked
CallbackComesBack(cb) == cb.kind # "Diverges"

\* thread::Result<(ExternError, R::Value)>
Completed(err, c) == [caught |-> FALSE, payload |-> "", err |-> err, o |-> c.o, alloc |-> c.alloc]
Caught(payload) == [caught |-> TRUE, payload |-> payload, err |-> ExternError_success, o |-> 0, alloc |-> <<>>]

\* the arm Ok(v) yields R::ffi_default() in place of v.into_ffi_value()
CatchUnwind_OkYieldsDefault(cb, a) ==
    IF cb.kind = "Panic" THEN Caught(cb.desc)
    ELSE IF cb.kind = "Ok" THEN
        LET c == into_ffi_value(cb.val, a)
        IN  IF c.panics THEN Caught(c.payload)
            ELSE Completed(ExternError_default, Converted(ffi_default(cb.R), <<>>))
    ELSE
        LET m == Into_ExternError(cb.err)
        IN  IF m.panics THEN Caught(m.payload)
            ELSE Completed(m.err, Converted(ffi_default(cb.R), <<>>))

\* the arm Err(e) yields ExternError::default() in place of e.into()
CatchUnwind_ErrYieldsSuccess(cb, a) ==
    IF cb.kind = "Panic" THEN Caught(cb.desc)
    ELSE IF cb.kind = "Ok" THEN
        LET c == into_ffi_value(cb.val, a)
        IN  IF c.panics THEN Caught(c.payload) ELSE Completed(ExternError_default, c)
    ELSE
        LET m == Into_ExternError(cb.err)
        IN  IF m.panics THEN Caught(m.payload)
            ELSE Completed(ExternError_default, Converted(ffi_default(cb.R), <<>>))

\* lines 51-56: catch_unwind around the callback and the two conversions
CatchUnwind(cb, a) ==
    IF cb.kind = "Panic" THEN Caught(cb.desc)
    ELSE IF cb.kind = "Ok" THEN
        LET c == into_ffi_value(cb.val, a)
        IN  IF c.panics THEN Caught(c.payload) ELSE Completed(ExternError_default, c)
    ELSE
        LET m == Into_ExternError(cb.err)
        IN  IF m.panics THEN Caught(m.payload)
            ELSE Completed(m.err, Converted(ffi_default(cb.R), <<>>))

\* the arm Ok((err, o)) without the store *out_error = err
MatchOk_NoStore(res) == [writes |-> <<>>, o |-> res.o]

\* lines 58-61: the arm Ok((err, o))
MatchOk(res) == [writes |-> <<res.err>>, o |-> res.o]

\* the arm Err(e) without the store *out_error = e.into()
MatchErr_NoStore(res, R) == [writes |-> <<>>, o |-> ffi_default(R)]

\* lines 62-69: the arm Err(e), when the process is not aborted
MatchErr(res, R) == [writes |-> <<ExternError_from_panic(res.payload)>>, o |-> ffi_default(R)]

\* line 64: whether the arm Err(e) aborts the process
AbortsOnPanic(abort_on_panic) == abort_on_panic

Last(s) == s[Len(s)]

\* *out_error after the stores in writes
Stored(old, writes) == IF Len(writes) = 0 THEN old ELSE Last(writes)

FreeAddrs == Addrs \ DOMAIN cstrings

\* the heap after a conversion that left (or did not leave) a CString at address a
HeapAfter(heap, a, alloc) ==
    IF Len(alloc) = 0 THEN heap
    ELSE [x \in DOMAIN heap \cup {a} |-> IF x = a THEN alloc[1] ELSE heap[x]]

\* call_with_result_impl up to the point where the callback starts running
Enter(mode, cb) ==
    /\ proc = "alive"
    /\ pc \in {"idle", "returned"}
    /\ cb.kind = "Ok" /\ Allocates(cb.val) => FreeAddrs # {}
    /\ pc' = "running"
    /\ call' = [mode |-> mode, cb |-> cb]
    /\ entrySlot' = slot
    /\ slotWrites' = EntryWrites(slot)
    /\ slot' = Stored(slot, EntryWrites(slot))
    /\ UNCHANGED <<proc, ret, faulted, cstrings, placesVars>>
    /\ UNCHANGED otherVars

\* the address the allocator hands out, when the conversion allocates
AllocChoices == IF FreeAddrs = {} THEN {NULL} ELSE FreeAddrs

\* the callback and the conversions completed: lines 58-61
ReturnCompleted ==
    /\ proc = "alive" /\ pc = "running"
    /\ CallbackComesBack(call.cb)
    /\ \E a \in AllocChoices :
        LET res == CatchUnwind(call.cb, a)
            m == MatchOk(res)
        IN  /\ ~res.caught
            /\ slotWrites' = slotWrites \o m.writes
            /\ slot' = Stored(slot, m.writes)
            /\ ret' = m.o
            /\ cstrings' = HeapAfter(cstrings, a, res.alloc)
            /\ heldStrings' = IF Len(res.alloc) = 0 THEN heldStrings ELSE heldStrings \cup {m.o}
    /\ pc' = "returned"
    /\ UNCHANGED <<proc, entrySlot, call, faulted, handles, heldHandles, last>>
    /\ UNCHANGED otherVars

\* a panic was caught and the process goes on: lines 62-69
ReturnCaught ==
    /\ proc = "alive" /\ pc = "running"
    /\ CallbackComesBack(call.cb)
    /\ LET res == CatchUnwind(call.cb, NULL)
           m == MatchErr(res, call.cb.R)
       IN  /\ res.caught
           /\ ~AbortsOnPanic(abort_on_panic_of(call.mode))
           /\ slotWrites' = slotWrites \o m.writes
           /\ slot' = Stored(slot, m.writes)
           /\ ret' = m.o
    /\ pc' = "returned"
    /\ faulted' = TRUE
    /\ UNCHANGED <<proc, entrySlot, call, cstrings, placesVars>>
    /\ UNCHANGED otherVars

\* a panic was caught and abort_on_panic is set: line 65, std::process::abort()
AbortCaught ==
    /\ proc = "alive" /\ pc = "running"
    /\ CallbackComesBack(call.cb)
    /\ CatchUnwind(call.cb, NULL).caught
    /\ AbortsOnPanic(abort_on_panic_of(call.mode))
    /\ proc' = "aborted"
    /\ UNCHANGED <<bridgeVars, cstrings, placesVars>>
    /\ UNCHANGED otherVars

----------------------------------------------------------------------------
(* The exported entry points -- components/places/ffi/src/lib.rs *)

\* a null-terminated buffer handed in by the foreign caller: its bytes are
\* valid UTF-8 spelling text, or they are not
CStr(text) == [utf8 |-> TRUE, text |-> text]
NotUtf8 == [utf8 |-> FALSE, text |-> ""]

\* op: the entry point; arg: its pointer argument; cstr: the buffer of its text
\* argument and text: what c_str_to_str made of it; keyptr: the encryption_key
\* argument, <<>> when it is the null pointer and <<buffer>> otherwise; key: the
\* key given to PlacesDb::open
NoOp == [op |-> "none", outcome |-> "none", ret |-> NULL, arg |-> NULL,
         cstr |-> CStr(""), text |-> "", keyptr |-> <<>>, key |-> <<>>]

Called(op, outcome, r, arg, cstr, text) ==
    [op |-> op, outcome |-> outcome, ret |-> r, arg |-> arg,
     cstr |-> cstr, text |-> text, keyptr |-> <<>>, key |-> <<>>]

\* a call of places_connection_new, with the path and the key it gave PlacesDb::open
CalledOpen(outcome, r, db_path, path, keyptr, key) ==
    [op |-> "places_connection_new", outcome |-> outcome, ret |-> r, arg |-> NULL,
     cstr |-> db_path, text |-> path, keyptr |-> keyptr, key |-> key]

\* at most this many connections are live at once
MaxConns == 2

\* at most this many observations are applied to one database
MaxVisits == 1

ConnAddrs == 1..MaxConns
FreeConnAddrs == ConnAddrs \ DOMAIN handles

\* lines 113-116: CStr::from_ptr(cstr).to_str().unwrap_or_default()
c_str_to_str(cstr) == IF cstr.utf8 THEN cstr.text ELSE ""

\* an empty key is handed on as Some("")
encryption_key_of_keeps_empty(is_null, cstr) ==
    IF is_null THEN <<>> ELSE <<c_str_to_str(cstr)>>

\* Option<&str>: <<>> is None, <<s>> is Some(s)
\* lines 48-53: the key places_connection_new opens the database with
encryption_key_of(is_null, cstr) ==
    IF is_null THEN <<>>
    ELSE LET s == c_str_to_str(cstr)
         IN  IF s = "" THEN <<>> ELSE <<s>>

\* what the wrapped library call does: it returns Ok or Err, or it panics
LibOutcomes == {"Ok", "Err", "Panic"}

\* a panic that reaches the end of an extern "C" function is undefined
\* behaviour: the build either unwinds into the foreign frames or aborts
PanicLeavesExternC == {"unwound", "aborted"}

\* both arms of the match return null; the Box of the Ok arm is leaked
connection_new_result_always_null(opened, a) == [ptr |-> NULL, boxed |-> opened = "Ok"]

\* lines 54-60: the pointer places_connection_new returns, and whether a Box
\* was moved to the heap at address a
connection_new_result(opened, a) ==
    IF opened = "Ok" THEN [ptr |-> a, boxed |-> TRUE]
    ELSE [ptr |-> NULL, boxed |-> FALSE]

\* places_connection_new(db_path, encryption_key)
places_connection_new(db_path, key_is_null, key, opened) ==
    /\ proc = "alive" /\ pc # "running"
    /\ opened = "Ok" => FreeConnAddrs # {}
    /\ LET path == c_str_to_str(db_path)
           k == encryption_key_of(key_is_null, key)
           keyptr == IF key_is_null THEN <<>> ELSE <<key>>
       IN  IF opened = "Panic"
           THEN /\ proc' \in PanicLeavesExternC
                /\ last' = CalledOpen(opened, NULL, db_path, path, keyptr, k)
                /\ UNCHANGED <<handles, heldHandles>>
           ELSE \E a \in (IF opened = "Ok" THEN FreeConnAddrs ELSE {NULL}) :
                LET r == connection_new_result(opened, a)
                IN  /\ handles' = IF r.boxed
                                  THEN [x \in DOMAIN handles \cup {a} |->
                                          IF x = a THEN [visits |-> <<>>]
                                          ELSE handles[x]]
                                  ELSE handles
                    /\ heldHandles' = IF r.ptr # NULL THEN heldHandles \cup {r.ptr} ELSE heldHandles
                    /\ last' = CalledOpen(opened, r.ptr, db_path, path, keyptr, k)
                    /\ UNCHANGED proc
    /\ pc' = "idle"
    /\ UNCHANGED <<callVars, cstrings, heldStrings>>
    /\ UNCHANGED otherVars

\* a VisitObservation as JSON, and JSON that does not decode to one
ObservationJson == {CStr("{\"url\":\"a\"}"), CStr("{\"url\":"), NotUtf8}

\* line 66: serde_json::from_str::<VisitObservation>(json)
from_str_VisitObservation(json) ==
    IF json = "{\"url\":\"a\"}" THEN [is_err |-> FALSE, visit |-> "a"]
    ELSE [is_err |-> TRUE, visit |-> ""]

\* a JSON text that does not decode is applied as the default (empty) visit
do_note_observation_applies_default(db, json, applied) ==
    LET visit == from_str_VisitObservation(json)
    IN  IF applied = "Ok"
        THEN [outcome |-> "Ok", db |-> [db EXCEPT !.visits = Append(@, visit.visit)]]
        ELSE [outcome |-> applied, db |-> db]

\* lines 63-69: do_note_observation(db, json), applied being what
\* places::storage::apply_observation does with the decoded visit
do_note_observation(db, json, applied) ==
    LET visit == from_str_VisitObservation(json)
    IN  IF visit.is_err THEN [outcome |-> "Err", db |-> db]
        ELSE IF applied = "Ok"
             THEN [outcome |-> "Ok", db |-> [db EXCEPT !.visits = Append(@, visit.visit)]]
             ELSE [outcome |-> applied, db |-> db]

\* places_note_observation(conn, json_observation); conn is a connection the caller holds
places_note_observation(conn, json_observation, applied) ==
    /\ proc = "alive" /\ pc # "running"
    /\ (~from_str_VisitObservation(c_str_to_str(json_observation)).is_err /\ applied = "Ok")
          => Len(handles[conn].visits) < MaxVisits
    /\ LET json == c_str_to_str(json_observation)
           r == do_note_observation(handles[conn], json, applied)
       IN  IF r.outcome = "Panic"
           THEN /\ proc' \in PanicLeavesExternC
                /\ UNCHANGED handles
                /\ last' = Called("places_note_observation", r.outcome, NULL, conn, json_observation, json)
           ELSE /\ handles' = [handles EXCEPT ![conn] = r.db]
                /\ last' = Called("places_note_observation", r.outcome, NULL, conn, json_observation, json)
                /\ UNCHANGED proc
    /\ pc' = "idle"
    /\ UNCHANGED <<callVars, cstrings, heldHandles, heldStrings>>
    /\ UNCHANGED otherVars

\* what search_frecent followed by serde_json::to_string does: lines 97-102
SearchOutcomes == {"Ok", "SearchErr", "JsonErr", "Panic"}
SearchResultsJson == {"[]", "[{\"url\":\"a\"}]"}

\* lines 104-110: the pointer places_query_autocomplete returns, and whether a
\* CString was moved to the heap at address a (serde_json escapes control
\* characters, so rust_string holds no NUL and CString::new(..).unwrap() returns)
query_autocomplete_result(result, a) ==
    IF result = "Ok" THEN [ptr |-> a, raw |-> TRUE]
    ELSE [ptr |-> NULL, raw |-> FALSE]

\* places_query_autocomplete(conn, search, limit); conn is a connection the caller holds
places_query_autocomplete(conn, search, result, rust_string) ==
    /\ proc = "alive" /\ pc # "running"
    /\ result = "Ok" => FreeAddrs # {}
    /\ LET query == c_str_to_str(search)
       IN  IF result = "Panic"
           THEN /\ proc' \in PanicLeavesExternC
                /\ last' = Called("places_query_autocomplete", result, NULL, conn, search, query)
                /\ UNCHANGED <<cstrings, heldStrings>>
           ELSE \E a \in (IF result = "Ok" THEN FreeAddrs ELSE {NULL}) :
                LET r == query_autocomplete_result(result, a)
                IN  /\ cstrings' = HeapAfter(cstrings, a, IF r.raw THEN <<rust_string>> ELSE <<>>)
                    /\ heldStrings' = IF r.ptr # NULL THEN heldStrings \cup {r.ptr} ELSE heldStrings
                    /\ last' = Called("places_query_autocomplete", result, r.ptr, conn, search, query)
                    /\ UNCHANGED proc
    /\ pc' = "idle"
    /\ UNCHANGED <<callVars, handles, heldHandles>>
    /\ UNCHANGED otherVars

----------------------------------------------------------------------------
(* The destructors -- components/places/ffi/src/lib.rs *)

\* the null test is missing: CString::from_raw runs on every argument
destroy_string_drops_unchecked(s) == TRUE

\* line 121: whether places_destroy_string(s) drops the CString at s
destroy_string_drops(s) == s # NULL

\* lines 122, 130: from_raw on a pointer that into_raw never gave (null
\* included) is undefined behaviour: the build may fault or carry on
FromRawOfForeignPointer == {"crashed", "alive"}

\* the Box is never dropped
connection_destroy_leaks(obj) == FALSE

\* line 129: whether places_connection_destroy(obj) drops the Box at obj
connection_destroy_drops(obj) == obj # NULL

Without(heap, a) == [x \in DOMAIN heap \ {a} |-> heap[x]]

\* places_destroy_string(s); the caller passes null or a string it holds
places_destroy_string(s) ==
    /\ proc = "alive" /\ pc # "running"
    /\ IF destroy_string_drops(s) /\ s \notin DOMAIN cstrings
       THEN proc' \in FromRawOfForeignPointer /\ cstrings' = cstrings
       ELSE /\ proc' = proc
            /\ cstrings' = IF destroy_string_drops(s) THEN Without(cstrings, s)
                                                      ELSE cstrings
    /\ heldStrings' = heldStrings \ {s}
    /\ last' = Called("places_destroy_string", "Ok", NULL, s, CStr(""), "")
    /\ pc' = "idle"
    /\ UNCHANGED <<callVars, handles, heldHandles>>
    /\ UNCHANGED otherVars

\* places_connection_destroy(obj); the caller passes null or a connection it holds
places_connection_destroy(obj) ==
    /\ proc = "alive" /\ pc # "running"
    /\ IF connection_destroy_drops(obj) /\ obj \notin DOMAIN handles
       THEN proc' \in FromRawOfForeignPointer /\ handles' = handles
       ELSE /\ proc' = proc
            /\ handles' = IF connection_destroy_drops(obj) THEN Without(handles, obj)
                                                           ELSE handles
    /\ heldHandles' = heldHandles \ {obj}
    /\ last' = Called("places_connection_destroy", "Ok", NULL, obj, CStr(""), "")
    /\ pc' = "idle"
    /\ UNCHANGED <<callVars, cstrings, heldStrings>>
    /\ UNCHANGED otherVars

Modes == {"default", "abort"}

\* the two clients of the tests
Clients == {"c0", "c1"}

\* what PasswordEngine::get(id) answers for the login of the test
GetAnswers == {"Some", "None"}

\* what the sync server holds of the account's logins
ServerStates == {"empty", "records"}

\* the test has called nothing yet; syncing: the clients that are in
\* TestClient::sync, between data_for_sync and engine.sync; test: "running",
\* how far cleanup_clients! has come ("wiped", "reset"), or "panicked";
\* done: the helper that returned last
NoHistory == [syncing |-> {}, test |-> "running", done |-> "none"]

\* PasswordEngine::new_in_memory on both clients, the server wiped
NoLogins ==
    /\ local = [c \in Clients |-> "None"]
    /\ server = "empty"
    /\ hist = NoHistory

\* no library function has been applied
NotApplied == [fn |-> "none", panics |-> FALSE, o |-> 0]

\* the process starts; no call has been made and no resource is live
NothingLive ==
    /\ proc = "alive"
    /\ pc = "idle"
    /\ slot = ExternError_success
    /\ entrySlot = ExternError_success
    /\ call = [mode |-> "default", cb |-> ReturnsOk(U32(0))]
    /\ ret = 0
    /\ slotWrites = <<>>
    /\ faulted = FALSE
    /\ cstrings = <<>>
    /\ handles = <<>>
    /\ heldHandles = {}
    /\ heldStrings = {}
    /\ last = NoOp

Init ==
    /\ NothingLive
    /\ given = <<>> /\ yielded = NotApplied
    /\ NoLogins

CallEnter == \E mode \in Modes, cb \in Callbacks : Enter(mode, cb)
DestroyString == \E s \in heldStrings \cup {NULL} : places_destroy_string(s)

Next ==
    \/ CallEnter
    \/ ReturnCompleted
    \/ ReturnCaught
    \/ AbortCaught
    \/ DestroyString

Spec == Init /\ [][Next]_vars

\* call_with_result_impl runs on the calling thread with no wait of its own:
\* once the callback has come back, the match of lines 58-70 is executed
\* The caller here keeps what it is given.
NextCalls ==
    \/ CallEnter
    \/ ReturnCompleted
    \/ ReturnCaught
    \/ AbortCaught

SpecRuns ==
    /\ Init /\ [][NextCalls]_vars
    /\ WF_vars(ReturnCompleted) /\ WF_vars(ReturnCaught) /\ WF_vars(AbortCaught)

DbPaths == {CStr("places.db"), NotUtf8}
Keys == {CStr(""), CStr("secret"), NotUtf8}
Searches == {CStr("moz"), NotUtf8}

ConnectionNew ==
    \E db_path \in DbPaths, key_is_null \in BOOLEAN, key \in Keys, opened \in LibOutcomes :
        places_connection_new(db_path, key_is_null, key, opened)
NoteObservation ==
    \E conn \in heldHandles, json \in ObservationJson, applied \in LibOutcomes :
        places_note_observation(conn, json, applied)
QueryAutocomplete ==
    \E conn \in heldHandles, search \in Searches, result \in SearchOutcomes,
       rust_string \in SearchResultsJson :
        places_query_autocomplete(conn, search, result, rust_string)
ConnectionDestroy == \E obj \in heldHandles \cup {NULL} : places_connection_destroy(obj)

NextPlaces ==
    \/ ConnectionNew
    \/ NoteObservation
    \/ QueryAutocomplete
    \/ DestroyString
    \/ ConnectionDestroy

SpecPlaces == Init /\ [][NextPlaces]_vars

----------------------------------------------------------------------------
(* IntoFfi applied to one value -- components/support/ffi/src/into_ffi.rs *)

\* the longest Vec marshaled, and the largest integer in it
MaxLen == 3
MaxInt == 3

\* the integers a Vec of an integer type may hold, as elements on the JSON path
JsonInts == {JsonT(i) : i \in -1..MaxInt}
IntVecs == {VecT(elems) : elems \in UNION {[1..n -> JsonInts] : n \in 0..MaxLen}}
\* the Strings marshaled: the empty one, plain text, JSON text
MarshalStrings == {Str(""), Str("x"), Str("[]"), OptionString(TRUE, ""), OptionString(TRUE, "x")}
MarshalInputs == U32Values \cup OptionValues \cup MarshalStrings \cup IntVecs

InitMarshal ==
    /\ NothingLive
    /\ given \in MarshalInputs /\ yielded = NotApplied
    /\ NoLogins

\* given.into_ffi_value()
IntoFfiValue ==
    /\ yielded.fn = "none"
    /\ Allocates(given) => FreeAddrs # {}
    /\ \E a \in AllocChoices :
        LET c == into_ffi_value(given, a)
        IN  /\ yielded' = [fn |-> "into_ffi_value", panics |-> c.panics, o |-> c.o]
            /\ cstrings' = HeapAfter(cstrings, a, c.alloc)
            /\ heldStrings' = IF Len(c.alloc) = 0 THEN heldStrings ELSE heldStrings \cup {c.o}
    /\ UNCHANGED <<proc, bridgeVars, handles, heldHandles, last, given, syncVars>>

\* the ffi_default() of the type of given
FfiDefault ==
    /\ yielded.fn = "none"
    /\ yielded' = [fn |-> "ffi_default", panics |-> FALSE, o |-> ffi_default(given.ty)]
    /\ UNCHANGED <<ffiVars, given, syncVars>>

NextMarshal ==
    \/ IntoFfiValue
    \/ FfiDefault

SpecMarshal == InitMarshal /\ [][NextMarshal]_vars

----------------------------------------------------------------------------
(* Guid -- components/support/guid/src/lib.rs *)

\* lines 48-65; Rust indexes it from 0, so the entry of byte b is BASE64URL_BYTES[b + 1]
BASE64URL_BYTES == <<
    0, 0, 0, 0, 0, 0, 0, 0, 0, 0, 0, 0, 0, 0, 0, 0,
    0, 0, 0, 0, 0, 0, 0, 0, 0, 0, 0, 0, 0, 0, 0, 0,
    0, 0, 0, 0, 0, 0, 0, 0, 0, 0, 0, 0, 0, 1, 0, 0,
    1, 1, 1, 1, 1, 1, 1, 1, 1, 1, 0, 0, 0, 0, 0, 0,
    0, 1, 1, 1, 1, 1, 1, 1, 1, 1, 1, 1, 1, 1, 1, 1,
    1, 1, 1, 1, 1, 1, 1, 1, 1, 1, 1, 0, 0, 0, 0, 1,
    0, 1, 1, 1, 1, 1, 1, 1, 1, 1, 1, 1, 1, 1, 1, 1,
    1, 1, 1, 1, 1, 1, 1, 1, 1, 1, 1, 0, 0, 0, 0, 0,
    0, 0, 0, 0, 0, 0, 0, 0, 0, 0, 0, 0, 0, 0, 0, 0,
    0, 0, 0, 0, 0, 0, 0, 0, 0, 0, 0, 0, 0, 0, 0, 0,
    0, 0, 0, 0, 0, 0, 0, 0, 0, 0, 0, 0, 0, 0, 0, 0,
    0, 0, 0, 0, 0, 0, 0, 0, 0, 0, 0, 0, 0, 0, 0, 0,
    0, 0, 0, 0, 0, 0, 0, 0, 0, 0, 0, 0, 0, 0, 0, 0,
    0, 0, 0, 0, 0, 0, 0, 0, 0, 0, 0, 0, 0, 0, 0, 0,
    0, 0, 0, 0, 0, 0, 0, 0, 0, 0, 0, 0, 0, 0, 0, 0,
    0, 0, 0, 0, 0, 0, 0, 0, 0, 0, 0, 0, 0, 0, 0, 0
>>

\* the length is not looked at
can_use_fast_any_length(bytes) ==
    \A i \in 1..Len(bytes) : BASE64URL_BYTES[bytes[i] + 1] = 1

\* lines 129-133
can_use_fast(bytes) ==
    /\ Len(bytes) = 12
    /\ \A i \in 1..Len(bytes) : BASE64URL_BYTES[bytes[i] + 1] = 1

\* lines 137-141
is_valid_for_places(bytes_or_str) == can_use_fast(bytes_or_str)

\* u8
Bytes == 0..255

\* the arguments of test_valid_for_places, lines 284-290, as bytes
TestValid1 == <<97, 97, 97, 97, 98, 98, 98, 98, 99, 99, 99, 99>>
TestValid2 == <<48, 57, 95, 97, 122, 45, 65, 90, 95, 48, 57, 45>>
TestTooLong == <<97, 97, 97, 97, 98, 98, 98, 98, 99, 99, 99, 99, 100>>
TestTooShort == <<97, 97, 97, 97, 98, 98, 98, 98, 99, 99, 99>>
TestSpace == <<97, 97, 97, 97, 98, 98, 98, 98, 99, 99, 99, 32>>
TestUnicode == <<97, 97, 97, 97, 98, 98, 98, 98, 99, 99, 99, 226, 136, 154, 194, 186>>
TestInvalidUtf8 == <<97, 97, 97, 97, 98, 98, 98, 98, 99, 99, 99, 160>>

\* the longest byte string made of TestValid2's characters
MaxGuidLen == 13

\* TestValid2 repeated up to length n
Repeated(n) == [i \in 1..n |-> TestValid2[((i - 1) % 12) + 1]]

\* the byte strings given to the Guid functions: the tests' arguments,
\* valid characters at every length, and every byte at every place of a
\* string of the right length
GuidInputs ==
    {TestValid1, TestValid2, TestTooLong, TestTooShort, TestSpace, TestUnicode, TestInvalidUtf8}
    \cup {Repeated(n) : n \in 0..MaxGuidLen}
    \cup {[TestValid2 EXCEPT ![i] = b] : i \in 1..12, b \in Bytes}

InitGuid ==
    /\ NothingLive
    /\ given \in GuidInputs /\ yielded = NotApplied
    /\ NoLogins

\* Guid::is_valid_for_places(given)
IsValidForPlaces ==
    /\ yielded.fn = "none"
    /\ yielded' = [fn |-> "is_valid_for_places", panics |-> FALSE, o |-> is_valid_for_places(given)]
    /\ UNCHANGED <<ffiVars, given, syncVars>>

----------------------------------------------------------------------------
(* Guid: construction, accessors and comparison -- components/support/guid/src/lib.rs *)

\* str::from_utf8(b).is_ok(), String::from_utf8(b).is_ok(): whether the bytes
\* of b from place i on are well-formed UTF-8
RECURSIVE IsUtf8From(_, _)
IsUtf8From(b, i) ==
    IF i > Len(b) THEN TRUE
    ELSE LET c == b[i]
             In(j, lo, hi) == j <= Len(b) /\ b[j] >= lo /\ b[j] <= hi
             Cont(j) == In(j, 128, 191)
         IN  IF c < 128 THEN IsUtf8From(b, i + 1)
             ELSE IF c >= 194 /\ c <= 223 THEN Cont(i + 1) /\ IsUtf8From(b, i + 2)
             ELSE IF c = 224 THEN In(i + 1, 160, 191) /\ Cont(i + 2) /\ IsUtf8From(b, i + 3)
             ELSE IF c = 237 THEN In(i + 1, 128, 159) /\ Cont(i + 2) /\ IsUtf8From(b, i + 3)
             ELSE IF c >= 225 /\ c <= 239 THEN Cont(i + 1) /\ Cont(i + 2) /\ IsUtf8From(b, i + 3)
             ELSE IF c = 240 THEN In(i + 1, 144, 191) /\ Cont(i + 2) /\ Cont(i + 3)
                                  /\ IsUtf8From(b, i + 4)
             ELSE IF c >= 241 /\ c <= 243 THEN Cont(i + 1) /\ Cont(i + 2) /\ Cont(i + 3)
                                               /\ IsUtf8From(b, i + 4)
             ELSE IF c = 244 THEN In(i + 1, 128, 143) /\ Cont(i + 2) /\ Cont(i + 3)
                                  /\ IsUtf8From(b, i + 4)
             ELSE FALSE
from_utf8_is_ok(b) == IsUtf8From(b, 1)

\* enum Repr, lines 36-46: a str or String is given by its UTF-8 bytes
Fast(bytes) == [fast |-> TRUE, bytes |-> bytes]
Slow(s) == [fast |-> FALSE, bytes |-> s]

\* a construction returns a Guid or panics
Built(g) == [panics |-> FALSE, guid |-> g]
BuildPanics == [panics |-> TRUE, guid |-> Slow(<<>>)]

\* every str gets the heap representation
from_str_always_slow(s) == Slow(s)

\* Guid::from_str, lines 67-77
from_str(s) == IF can_use_fast(s) THEN Fast(s) ELSE Slow(s)

\* bytes that are not valid UTF-8 are kept as a heap string, never None
try_from_bytes_unchecked(b) ==
    IF can_use_fast(b) THEN <<Fast(b)>> ELSE <<Slow(b)>>

\* Guid::try_from_bytes, lines 79-92: <<>> is None, <<g>> is Some(g)
try_from_bytes(b) ==
    IF can_use_fast(b) THEN <<Fast(b)>>
    ELSE IF from_utf8_is_ok(b) THEN <<Slow(b)>>
    ELSE <<>>

\* impl From<&[u8]> for Guid, lines 151-156: try_from_bytes(s).unwrap()
From_slice(s) ==
    LET g == try_from_bytes(s)
    IN  IF Len(g) = 0 THEN BuildPanics ELSE Built(g[1])

\* impl From<Vec<u8>> for Guid, lines 165-176
From_Vec(owned_bytes) ==
    IF can_use_fast(owned_bytes) THEN Built(Fast(owned_bytes))
    ELSE IF from_utf8_is_ok(owned_bytes) THEN Built(Slow(owned_bytes))
    ELSE BuildPanics

\* what a Guid is compared with: lines 256-259, or another Guid
OtherTypes == {"str", "&str", "String", "[u8]", "&[u8]", "Vec<u8>"}
IsText(type) == type \in {"str", "&str", "String"}

\* the four impl From<..> for Guid, lines 144-176; String goes by into_bytes
GuidSources == {"&str", "String", "&[u8]", "Vec<u8>"}
Guid_from(source, bytes) ==
    IF source = "&str" THEN Built(from_str(bytes))
    ELSE IF source = "String" THEN From_Vec(bytes)
    ELSE IF source = "&[u8]" THEN From_slice(bytes)
    ELSE From_Vec(bytes)

\* Guid::as_bytes, lines 99-105
as_bytes(g) == g.bytes

\* str::from_utf8(bytes).unwrap(), lines 113 and 123: the text, or a panic
unwrap_from_utf8(bytes) ==
    IF from_utf8_is_ok(bytes) THEN [panics |-> FALSE, s |-> bytes]
    ELSE [panics |-> TRUE, s |-> <<>>]

\* Guid::as_str, lines 107-117
as_str(g) == IF g.fast THEN unwrap_from_utf8(g.bytes) ELSE [panics |-> FALSE, s |-> g.bytes]

\* Guid::into_string, lines 119-127
into_string(g) == IF g.fast THEN unwrap_from_utf8(g.bytes) ELSE [panics |-> FALSE, s |-> g.bytes]

\* what the accessors give for a Guid g: as_bytes, as_str, into_string, and
\* From<Guid> for Vec<u8>, lines 185-190, which is into_string().into_bytes()
Accessors(fn, source, built, g) ==
    [fn |-> fn,
     panics |-> built /\ (as_str(g).panics \/ into_string(g).panics),
     o |-> [source |-> source, built |-> built, guid |-> g,
            as_bytes |-> as_bytes(g), as_str |-> as_str(g).s,
            into_string |-> into_string(g).s, into_vec |-> into_string(g).s]]

\* Guid::try_from_bytes(given), and the accessors on the Guid it gives
TryFromBytes ==
    /\ yielded.fn = "none"
    /\ LET g == try_from_bytes(given)
       IN  yielded' = IF Len(g) = 0 THEN Accessors("try_from_bytes", "&[u8]", FALSE, Slow(<<>>))
                      ELSE Accessors("try_from_bytes", "&[u8]", TRUE, g[1])
    /\ UNCHANGED <<ffiVars, given, syncVars>>

\* Guid::from(given) by one of the impl From<..> for Guid (for &str that is
\* Guid::from_str), and the accessors on the Guid; a text is valid UTF-8 by its type
GuidFrom(source) ==
    /\ yielded.fn = "none"
    /\ IsText(source) => from_utf8_is_ok(given)
    /\ LET g == Guid_from(source, given)
       IN  yielded' = IF g.panics THEN [Accessors("from", source, FALSE, g.guid) EXCEPT !.panics = TRUE]
                      ELSE Accessors("from", source, TRUE, g.guid)
    /\ UNCHANGED <<ffiVars, given, syncVars>>

NextGuid ==
    \/ IsValidForPlaces
    \/ TryFromBytes
    \/ \E source \in GuidSources : GuidFrom(source)

SpecGuid == InitGuid /\ [][NextGuid]_vars

\* #[derive(PartialEq)] on Guid(Repr), line 30: same variant, equal payload
Guid_eq(g, h) == g.fast = h.fast /\ g.bytes = h.bytes
Guid_ne(g, h) == ~Guid_eq(g, h)

\* impl_guid_eq!, lines 227-253: both sides as &[u8]
Guid_eq_other(g, other) == as_bytes(g) = other
Guid_ne_other(g, other) == as_bytes(g) # other

\* the tail of a byte string is at most this long
MaxTail == 2

\* eleven 'a', then a tail of 'a', '-', ' ' and the two bytes of an e-acute
TailBytes == {97, 45, 32, 195, 169}
ComparedInputs ==
    {[i \in 1..11 |-> 97] \o tail : tail \in UNION {[1..n -> TailBytes] : n \in 0..MaxTail}}

InitGuidEq ==
    /\ NothingLive
    /\ given \in [a : ComparedInputs, b : ComparedInputs]
    /\ yielded = NotApplied
    /\ NoLogins

Compared(source, other, is_guid, panics, fast, eq, ne, eq_rev, ne_rev) ==
    [fn |-> "eq", panics |-> panics,
     o |-> [source |-> source, other |-> other, other_is_guid |-> is_guid, fast |-> fast,
            eq |-> eq, ne |-> ne, eq_rev |-> eq_rev, ne_rev |-> ne_rev]]

\* Guid::from(a) == b, != b, b == Guid::from(a), b != Guid::from(a), with b of
\* one of the types of impl_guid_eq!; a text is valid UTF-8 by its type
CompareWithOther(source, other) ==
    /\ yielded.fn = "none"
    /\ IsText(source) => from_utf8_is_ok(given.a)
    /\ IsText(other) => from_utf8_is_ok(given.b)
    /\ LET g == Guid_from(source, given.a)
       IN  yielded' =
             IF g.panics THEN Compared(source, other, FALSE, TRUE, FALSE, FALSE, FALSE, FALSE, FALSE)
             ELSE Compared(source, other, FALSE, FALSE, g.guid.fast,
                           Guid_eq_other(g.guid, given.b), Guid_ne_other(g.guid, given.b),
                           Guid_eq_other(g.guid, given.b), Guid_ne_other(g.guid, given.b))
    /\ UNCHANGED <<ffiVars, given, syncVars>>

\* Guid::from(a) == Guid::from(b) and !=, in both orders
CompareWithGuid(source, other) ==
    /\ yielded.fn = "none"
    /\ IsText(source) => from_utf8_is_ok(given.a)
    /\ IsText(other) => from_utf8_is_ok(given.b)
    /\ LET g == Guid_from(source, given.a)
           h == Guid_from(other, given.b)
       IN  yielded' =
             IF g.panics \/ h.panics
             THEN Compared(source, other, TRUE, TRUE, FALSE, FALSE, FALSE, FALSE, FALSE)
             ELSE Compared(source, other, TRUE, FALSE, g.guid.fast,
                           Guid_eq(g.guid, h.guid), Guid_ne(g.guid, h.guid),
                           Guid_eq(h.guid, g.guid), Guid_ne(h.guid, g.guid))
    /\ UNCHANGED <<ffiVars, given, syncVars>>

NextGuidEq ==
    \/ \E source \in GuidSources, other \in OtherTypes : CompareWithOther(source, other)
    \/ \E source \in GuidSources, other \in GuidSources : CompareWithGuid(source, other)

SpecGuidEq == InitGuidEq /\ [][NextGuidEq]_vars

----------------------------------------------------------------------------
(* The test clients of the logins engine -- logins-sql/tests *)
(* PasswordEngine and the sync server are not part of these sources: what a *)
(* call of the engine answers is an input of the action that makes it, and  *)
(* what a sync makes of the login (C18, C19) is left open.                  *)

\* helpers/mod.rs 209-220: fully_wipe_server; info is what get_sync_info()
\* answers; with Some(info), wipe_all_remote() leaves the server empty, or it
\* fails (wipe_fails) and the ? returns the Err
fully_wipe_server(info, srv, wipe_fails) ==
    IF info = "None" THEN [returns |-> "Ok(false)", server |-> srv]
    ELSE IF wipe_fails THEN [returns |-> "Err", server |-> srv]
    ELSE [returns |-> "Ok(true)", server |-> "empty"]

\* helpers/mod.rs 238-252: cleanup_server; the first client whose
\* fully_wipe_server returns Ok(true) ends the loop, Ok(false) and Err (after
\* a warning) go on to the next client, and when the clients are used up the
\* function bails; infos: the clients whose get_sync_info() is Some,
\* failing: the clients whose wipe_all_remote() fails
RECURSIVE cleanup_server(_, _, _, _)
cleanup_server(clients, srv, infos, failing) ==
    IF Len(clients) = 0 THEN [ok |-> FALSE, server |-> srv]
    ELSE LET c == Head(clients)
             w == fully_wipe_server(IF c \in infos THEN "Some" ELSE "None", srv, c \in failing)
         IN  IF w.returns = "Ok(true)" THEN [ok |-> TRUE, server |-> w.server]
             ELSE cleanup_server(Tail(clients), w.server, infos, failing)

\* the test's thread is free to start an operation on client c
Free(c) == hist.test = "running" /\ c \notin hist.syncing

\* the helper op has returned to the test, which goes on
Returned(op) == [hist EXCEPT !.done = op]

\* an expect, an unwrap or an assert of the test has panicked
Panicked == [hist EXCEPT !.test = "panicked"]

\* helpers/mod.rs 280-283: add_login, and the test's expect on its result;
\* fails: e.add or e.get returns an Err, or e.get answers None
AddLogin(c, fails) ==
    /\ Free(c)
    /\ IF fails
       THEN hist' = Panicked /\ UNCHANGED local
       ELSE hist' = Returned("add_login") /\ local' = [local EXCEPT ![c] = "Some"]
    /\ UNCHANGED <<ffiVars, pureVars, server>>

\* helpers/mod.rs 303-308: touch_login(e, id, times), and the test's expect;
\* the helper returns only when its last e.get(id) answers Some: on a login
\* the engine does not hold, e.touch returns an Err (times > 0) or e.get
\* answers None and the unwrap panics (times = 0); fails: e.touch or e.get
\* returns an Err on a login the engine holds
TouchLogin(c, times, fails) ==
    /\ Free(c)
    /\ hist' = IF local[c] = "None" \/ fails THEN Panicked ELSE Returned("touch_login")
    /\ UNCHANGED <<ffiVars, pureVars, local, server>>

\* helpers/mod.rs 296-301: update_login, and the test's unwrap; the first
\* e.get(id) answering None panics ("No such login!"); fails: e.get or
\* e.update returns an Err, or the second e.get answers None
UpdateLogin(c, fails) ==
    /\ Free(c)
    /\ hist' = IF local[c] = "None" \/ fails THEN Panicked ELSE Returned("update_login")
    /\ UNCHANGED <<ffiVars, pureVars, local, server>>

\* integration.rs 204-219: assert!(c.engine.delete(id).expect("Delete should
\* work")); the test goes on when delete returns Ok(true), and what e.get(id)
\* answers from then on (answer) is the engine's to say
DeleteLogin(c, returns, answer) ==
    /\ Free(c)
    /\ IF returns = "Ok(true)"
       THEN hist' = Returned("delete") /\ local' = [local EXCEPT ![c] = answer]
       ELSE hist' = Panicked /\ UNCHANGED local
    /\ UNCHANGED <<ffiVars, pureVars, server>>

\* helpers/mod.rs 285-290: verify_login; get_fails: e.get returns an Err;
\* equivalent: assert_logins_equiv (265-274) finds the fields equal
VerifyLogin(c, get_fails, equivalent) ==
    /\ Free(c)
    /\ hist' = IF ~get_fails /\ local[c] = "Some" /\ equivalent
               THEN Returned("verify_login") ELSE Panicked
    /\ UNCHANGED <<ffiVars, pureVars, local, server>>

\* helpers/mod.rs 292-294: verify_missing_login
VerifyMissingLogin(c, get_fails) ==
    /\ Free(c)
    /\ hist' = IF ~get_fails /\ local[c] = "None"
               THEN Returned("verify_missing_login") ELSE Panicked
    /\ UNCHANGED <<ffiVars, pureVars, local, server>>

\* helpers/mod.rs 227-228: TestClient::sync up to the return of data_for_sync
\* (183-207), which fetches the token over the network and touches no login;
\* when it fails sync returns the Err and the test's expect panics
DataForSync(c, fails) ==
    /\ Free(c)
    /\ hist' = IF fails THEN Panicked ELSE [hist EXCEPT !.syncing = @ \cup {c}]
    /\ UNCHANGED <<ffiVars, pureVars, local, server>>

\* helpers/mod.rs 229-230: TestClient::sync from self.engine.sync(&init, &key)?
\* on; when the engine's sync fails sync returns the Err and the test's
\* expect panics; when it returns Ok, what e.get(id) answers from then on
\* (answer) and what the server holds (srv) are the engine's to say
EngineSync(c, fails, answer, srv) ==
    /\ hist.test = "running" /\ c \in hist.syncing
    /\ IF fails
       THEN hist' = Panicked /\ UNCHANGED <<local, server>>
       ELSE /\ hist' = [hist EXCEPT !.syncing = @ \ {c}, !.done = "sync"]
            /\ local' = [local EXCEPT ![c] = answer]
            /\ server' = srv
    /\ UNCHANGED <<ffiVars, pureVars>>

\* the clients in the order cleanup_clients!(c0, c1) names them
TestClients == <<"c0", "c1">>

\* integration.rs 36: cleanup_server(&[&c0, &c1]).expect("Remote cleanup failed");
\* when cleanup_server bails the expect panics: the server is as the last
\* fully_wipe_server left it and the test thread makes no further call
CleanupServer(infos, failing) ==
    /\ hist.test = "running" /\ hist.syncing = {}
    /\ LET r == cleanup_server(TestClients, server, infos, failing)
       IN  /\ server' = r.server
           /\ hist' = IF r.ok THEN [hist EXCEPT !.test = "wiped", !.done = "cleanup_server"]
                      ELSE Panicked
    /\ UNCHANGED <<ffiVars, pureVars, local>>

\* integration.rs 38 and helpers/mod.rs 222-225: fully_reset_local_db, on
\* each client in turn; the engine is a new PasswordEngine::new_in_memory,
\* which holds no login, or making one fails, the engine stays and the
\* test's expect panics; after the last client the next test runs
FullyResetLocalDb(c, fails) ==
    LET reset_so_far == IF hist.test = "wiped" THEN 0 ELSE 1
    IN  /\ hist.test \in {"wiped", "reset"}
        /\ c = TestClients[reset_so_far + 1]
        /\ IF fails
           THEN hist' = Panicked /\ UNCHANGED local
           ELSE /\ local' = [local EXCEPT ![c] = "None"]
                /\ hist' = [hist EXCEPT !.done = "fully_reset_local_db",
                                        !.test = IF reset_so_far + 1 = Len(TestClients)
                                                 THEN "running" ELSE "reset"]
        /\ UNCHANGED <<ffiVars, pureVars, server>>

InitSync ==
    /\ NothingLive
    /\ given = <<>> /\ yielded = NotApplied
    /\ NoLogins

NextSync ==
    \/ \E c \in Clients, fails \in BOOLEAN : AddLogin(c, fails)
    \/ \E c \in Clients, times \in 0..2, fails \in BOOLEAN : TouchLogin(c, times, fails)
    \/ \E c \in Clients, fails \in BOOLEAN : UpdateLogin(c, fails)
    \/ \E c \in Clients, returns \in {"Ok(true)", "Ok(false)", "Err"}, answer \in GetAnswers :
          DeleteLogin(c, returns, answer)
    \/ \E c \in Clients, get_fails \in BOOLEAN, equivalent \in BOOLEAN :
          VerifyLogin(c, get_fails, equivalent)
    \/ \E c \in Clients, get_fails \in BOOLEAN : VerifyMissingLogin(c, get_fails)
    \/ \E c \in Clients, fails \in BOOLEAN : DataForSync(c, fails)
    \/ \E c \in Clients, fails \in BOOLEAN, answer \in GetAnswers, srv \in ServerStates :
          EngineSync(c, fails, answer, srv)
    \/ \E infos \in SUBSET Clients, failing \in SUBSET Clients : CleanupServer(infos, failing)
    \/ \E c \in Clients, fails \in BOOLEAN : FullyResetLocalDb(c, fails)

SpecSync == InitSync /\ [][NextSync]_vars

----------------------------------------------------------------------------
(* What the claims speak of, stated apart from the definitions above *)

\* the callback returned Ok(v) and v.into_ffi_value() returned
MarshalCompletes(cb) ==
    cb.kind = "Ok" /\ \A i \in 1..Len(cb.val.elems) : cb.val.elems[i].serializes

\* the callback returned Err(e) and e.into() returned
MappingCompletes(cb) == cb.kind = "Err" /\ cb.err # "Unmappable"

\* the text of the panic the containment region catches
PanicTextOf(cb) ==
    IF cb.kind = "Panic" THEN cb.desc
    ELSE IF cb.kind = "Ok"
    THEN "called 'Result::unwrap()' on an 'Err' value: Error(\"cannot serialize\", line: 0, column: 0)"
    ELSE "error conversion failed"

SuccessState == [code |-> 0, message |-> <<>>]

\* R's default value: zero for the numbers, the null pointer for the types
\* that cross as a pointer to text
DefaultOf(R) == IF R \in {"u32", "Option<u32>"} THEN 0 ELSE NULL

\* the JSON text of the two Vec<T> of VecValues that serialize: the empty
\* one and the one of the elements 1, 2, 3
JsonTextOf(elems) == IF Len(elems) = 0 THEN "[]" ELSE "[1,2,3]"

\* ret is the boundary value of the value v the callback returned
IsMarshaled(v) ==
    IF v.ty = "u32" THEN ret = v.n
    ELSE IF v.ty = "Option<u32>" THEN ret = (IF v.some THEN v.n ELSE 0)
    ELSE IF v.ty = "Option<String>" /\ ~v.some THEN ret = NULL
    ELSE IF v.ty \in {"String", "Option<String>"}
    THEN ret # NULL /\ ret \in DOMAIN cstrings /\ cstrings[ret] = v.s
    ELSE /\ ret # NULL
         /\ ret \in DOMAIN cstrings
         /\ cstrings[ret] = JsonTextOf(v.elems)

\* the slot a call with callback cb must leave
ExpectedSlot(cb) ==
    IF MarshalCompletes(cb) THEN SuccessState
    ELSE IF MappingCompletes(cb) THEN
        (IF cb.err = "NotFound" THEN [code |-> 3, message |-> <<"not found">>]
         ELSE [code |-> 7, message |-> <<"database is locked">>])
    ELSE [code |-> RESERVED_FAULT_CODE, message |-> <<PanicTextOf(cb)>>]

\* the value a call with callback cb must return
ExpectedReturn(cb) ==
    IF MarshalCompletes(cb) THEN IsMarshaled(cb.val) ELSE ret = DefaultOf(cb.R)

----------------------------------------------------------------------------
(* Claims *)

\* C1: whenever the wrapped operation returns Ok(r) (and r.into_ffi_value()
\* returns), in either mode, the call returns with the slot in the success
\* state (code 0, no message) and with exactly r's boundary value:
\* Ok(5u32) gives code 0 and 5.
C1_OkLeavesSuccessAndMarshaledValue ==
    (pc = "returned" /\ MarshalCompletes(call.cb)) =>
        /\ slot.code = 0
        /\ slot.message = <<>>
        /\ IsMarshaled(call.cb.val)
        /\ (call.cb.val = U32(5) => ret = 5)

C1_Witness ==
    /\ pc = "returned"
    /\ call.cb = ReturnsOk(U32(5))
    /\ ret = 5
    /\ slot.code = 0

\* C2: whenever the wrapped operation returns Err(e) (and e.into() returns),
\* the call returns with the slot equal to the (code, message) the caller's
\* mapping gives for e, and with R's default value: an error mapped to
\* (3, "not found") gives the slot {3, "not found"} and the default.
C2_ErrLeavesMappedErrorAndDefault ==
    (pc = "returned" /\ MappingCompletes(call.cb)) =>
        /\ slot = Into_ExternError(call.cb.err).err
        /\ (call.cb.err = "NotFound" => slot = [code |-> 3, message |-> <<"not found">>])
        /\ ret = DefaultOf(call.cb.R)

C2_Witness ==
    /\ pc = "returned"
    /\ call.cb.kind = "Err"
    /\ call.cb.err = "NotFound"
    /\ call.cb.R = "Vec<T>"
    /\ slot = [code |-> 3, message |-> <<"not found">>]
    /\ ret = NULL

\* C3: in default mode a panic of the wrapped operation does not stop the
\* call from returning: the process is not aborted, the slot carries the
\* reserved fault code and the panic's text, the default value is returned,
\* a further call can start, and every call made after a caught panic leaves
\* the slot and the value its own outcome asks for.
C3_DefaultModeContainsPanic ==
    /\ (call.mode = "default" /\ call.cb.kind = "Panic") => proc = "alive"
    /\ (pc = "returned" /\ call.mode = "default" /\ call.cb.kind = "Panic") =>
          /\ slot.code = RESERVED_FAULT_CODE
          /\ slot.message = <<call.cb.desc>>
          /\ ret = DefaultOf(call.cb.R)
          /\ faulted
          /\ ENABLED CallEnter
    /\ (pc = "returned" /\ faulted) =>
          /\ slot = ExpectedSlot(call.cb)
          /\ ExpectedReturn(call.cb)

C3_Witness ==
    /\ pc = "returned"
    /\ call.mode = "default"
    /\ call.cb = Panics("u32", "divide by zero")
    /\ slot = [code |-> RESERVED_FAULT_CODE, message |-> <<"divide by zero">>]
    /\ proc = "alive"

\* C4: in abort mode a panic of the wrapped operation ends the process: the
\* call never returns, the only store into the slot is the reset to success
\* (never the fault state), and once the process is aborted nothing can
\* start or continue.
C4_AbortModeTerminates ==
    /\ (call.mode = "abort" /\ call.cb.kind = "Panic") =>
          /\ pc # "returned"
          /\ \A i \in 1..Len(slotWrites) : slotWrites[i].code # RESERVED_FAULT_CODE
    /\ proc = "aborted" =>
          /\ call.mode = "abort"
          /\ pc = "running"
          /\ slot = SuccessState
          /\ slotWrites = <<SuccessState>>
          /\ ~ENABLED Next

C4_Witness ==
    /\ proc = "aborted"
    /\ call.mode = "abort"
    /\ call.cb = Panics("u32", "divide by zero")
    /\ entrySlot.code # 0

\* C5 as claimed: no call returns R's default value with the slot in the
\* success state, and no call returns a value other than the default (one
\* that looks like success data) with a non-success slot.
C5_Original ==
    pc = "returned" =>
        /\ ~(ret = DefaultOf(call.cb.R) /\ slot.code = 0)
        /\ ~(slot.code # 0 /\ ret # DefaultOf(call.cb.R))

\* C5, amended: the slot and the value agree with the outcome in one
\* direction only. Ok gives the success state and the marshaled value; Err
\* and a caught panic give a non-success slot set from that outcome and R's
\* default value; so a non-success slot always comes with the default value.
\* The default value may come with the success state (Ok(None), Ok(0)).
C5_SlotAndValueAgreeWithOutcome ==
    pc = "returned" =>
        /\ MarshalCompletes(call.cb) => (slot = SuccessState /\ IsMarshaled(call.cb.val))
        /\ ~MarshalCompletes(call.cb) =>
              /\ slot = ExpectedSlot(call.cb)
              /\ slot.code # 0
              /\ ret = DefaultOf(call.cb.R)
        /\ slot.code # 0 => ret = DefaultOf(call.cb.R)

C5_Witness ==
    /\ pc = "returned"
    /\ call.cb = ReturnsOk(OptionU32(FALSE, 0))
    /\ ret = DefaultOf("Option<u32>")
    /\ slot = SuccessState

\* C6 as claimed: a call stores into the slot exactly once, whatever the outcome.
C6_Original ==
    pc = "returned" => Len(slotWrites) = 1

\* C6, amended: a call that returns stores into the slot exactly twice, first
\* the success state on entry and then the outcome; a call that has not
\* returned (the callback is running, or the process was aborted) has stored
\* once, the success state. No store depends on what the slot held on entry:
\* the bridge never reads it.
C6_TwoStoresPerReturnedCall ==
    /\ pc = "returned" =>
          /\ Len(slotWrites) = 2
          /\ slotWrites[1] = SuccessState
          /\ slotWrites[2] = ExpectedSlot(call.cb)
          /\ slot = slotWrites[2]
    /\ pc = "running" => slotWrites = <<SuccessState>>

C6_Witness ==
    /\ pc = "returned"
    /\ entrySlot = SuccessState
    /\ MarshalCompletes(call.cb)
    /\ slotWrites = <<SuccessState, SuccessState>>

\* C7: with one slot reused over any sequence of calls, the slot after a
\* returned call is the one its own outcome asks for, whatever the slot held
\* on entry: an Ok call entered with an error or a fault in the slot leaves
\* code 0 and no message, and the returned value is the one the outcome asks for.
C7_SlotNeverStale ==
    pc = "returned" =>
        /\ slot = ExpectedSlot(call.cb)
        /\ ExpectedReturn(call.cb)
        /\ (MarshalCompletes(call.cb) /\ entrySlot.code # 0) =>
              (slot.code = 0 /\ slot.message = <<>>)

C7_Witness ==
    /\ pc = "returned"
    /\ entrySlot.code = RESERVED_FAULT_CODE
    /\ call.cb.kind = "Ok"
    /\ slot = SuccessState

\* C8: the slot is set to the success state before the wrapped operation
\* starts: while the operation runs the slot holds success, not what it held
\* on entry.
C8_SlotIsSuccessWhileRunning ==
    pc = "running" => slot = SuccessState

C8_Witness ==
    /\ pc = "running"
    /\ proc = "alive"
    /\ entrySlot.code # 0
    /\ slot = SuccessState

\* C9 as claimed: no panic of a wrapped library operation leaves
\* places_connection_new, places_note_observation or
\* places_query_autocomplete and unwinds into the foreign caller.
C9_NoPanicLeavesEntryPoint ==
    proc # "unwound"

\* the live resources are exactly the pointers the caller holds
Balanced ==
    /\ DOMAIN handles = heldHandles
    /\ DOMAIN cstrings = heldStrings

\* C10: ownership is balanced. A successful places_connection_new
\* (places_query_autocomplete) adds exactly one live resource, at the
\* non-null pointer it returns; a failed one returns null and adds none; no
\* entry point frees or keeps a resource it has returned; one call of the
\* matching destructor removes exactly the resource it is given; so the live
\* resources are always those the caller still holds, and none once every
\* one was destroyed.
C10_OwnershipBalanced ==
    [][ LET op == last'.op
            out == last'.outcome
            r == last'.ret
            arg == last'.arg
        IN  /\ Balanced'
            /\ op = "places_connection_new" =>
                  /\ cstrings' = cstrings
                  /\ IF out = "Ok"
                     THEN /\ r # NULL
                          /\ r \notin DOMAIN handles
                          /\ DOMAIN handles' = DOMAIN handles \cup {r}
                     ELSE /\ r = NULL
                          /\ handles' = handles
            /\ op = "places_query_autocomplete" =>
                  /\ handles' = handles
                  /\ IF out = "Ok"
                     THEN /\ r # NULL
                          /\ r \notin DOMAIN cstrings
                          /\ DOMAIN cstrings' = DOMAIN cstrings \cup {r}
                     ELSE /\ r = NULL
                          /\ cstrings' = cstrings
            /\ op = "places_note_observation" =>
                  /\ DOMAIN handles' = DOMAIN handles
                  /\ cstrings' = cstrings
            /\ op = "places_connection_destroy" =>
                  /\ DOMAIN handles' = DOMAIN handles \ {arg}
                  /\ cstrings' = cstrings
            /\ op = "places_destroy_string" =>
                  /\ DOMAIN cstrings' = DOMAIN cstrings \ {arg}
                  /\ handles' = handles
            /\ (heldHandles' = {} /\ heldStrings' = {}) =>
                  (DOMAIN handles' = {} /\ DOMAIN cstrings' = {})
      ]_vars

C10_Witness ==
    /\ last.op = "places_connection_destroy"
    /\ last.arg # NULL
    /\ heldHandles = {}
    /\ heldStrings = {}
    /\ DOMAIN handles = {}
    /\ DOMAIN cstrings = {}


----------------------------------------------------------------------------
\* C11: a destructor called on null is a no-op.  Whatever the state, a call of
\* places_destroy_string(null) or places_connection_destroy(null) does not
\* fault and leaves every live string and every live connection as it was;
\* this holds for each call, so for any number of them in a row.
DestroyedNull ==
    /\ last'.op \in {"places_destroy_string", "places_connection_destroy"}
    /\ last'.arg = NULL
C11_DestructorsIgnoreNull ==
    [][DestroyedNull =>
         /\ proc' = "alive"
         /\ cstrings' = cstrings /\ handles' = handles
         /\ heldStrings' = heldStrings /\ heldHandles' = heldHandles]_vars

\* places_destroy_string(null) has just run while a string and a connection are live
C11_Witness ==
    /\ last.op = "places_destroy_string" /\ last.arg = NULL
    /\ proc = "alive"
    /\ DOMAIN cstrings # {} /\ DOMAIN handles # {}


----------------------------------------------------------------------------
\* C12: the legacy entry points report failure by a null return.  When
\* places_connection_new returns, its result is null if and only if
\* PlacesDb::open returned an error; when places_query_autocomplete returns,
\* its result is null if and only if the search or the JSON serialization
\* returned an error; on success the result is a non-null pointer to the
\* connection or string just created.
C12_NullReturnIffError ==
    /\ (last.op = "places_connection_new" /\ last.outcome # "Panic") =>
          /\ (last.ret = NULL) <=> (last.outcome = "Err")
          /\ last.outcome = "Ok" => last.ret \in DOMAIN handles
    /\ (last.op = "places_query_autocomplete" /\ last.outcome # "Panic") =>
          /\ (last.ret = NULL) <=> (last.outcome \in {"SearchErr", "JsonErr"})
          /\ last.outcome = "Ok" => last.ret \in DOMAIN cstrings

\* a search has just failed in its JSON serialization on a connection that an
\* earlier successful places_connection_new returned
C12_Witness ==
    /\ last.op = "places_query_autocomplete" /\ last.outcome = "JsonErr"
    /\ last.ret = NULL /\ last.arg \in DOMAIN handles /\ last.arg # NULL
    /\ proc = "alive"


----------------------------------------------------------------------------
\* C13: marshaling of Option<T>, with T = u32 and T = String.  A call that
\* returns Ok(Some(v)) returns what v itself marshals to (a u32 crosses
\* unchanged, a String as a pointer to a new CString of its text); a call that
\* returns Ok(None) returns T's default value; a call that fails (Err or
\* caught panic) returns the default value of Option<T>, which is T's default
\* value too.  So None, Some(v) with v marshaling to the default value, and a
\* failed call all return the same value, and success is told from failure by
\* the slot's code alone: 0 for the first two, not 0 for the third.
InnerOf(R) == IF R = "Option<String>" THEN "String" ELSE "u32"
C13_OptionMarshaling ==
    (pc = "returned" /\ call.cb.R \in {"Option<u32>", "Option<String>"}) =>
        LET cb == call.cb
            T == InnerOf(cb.R)
        IN  /\ DefaultOf(cb.R) = DefaultOf(T)
            /\ (cb.kind = "Ok" /\ cb.val.some) =>
                  /\ slot.code = 0
                  /\ T = "u32" => ret = cb.val.n
                  /\ T = "String" =>
                        ret # NULL /\ ret \in DOMAIN cstrings /\ cstrings[ret] = cb.val.s
            /\ (cb.kind = "Ok" /\ ~cb.val.some) => (ret = DefaultOf(T) /\ slot.code = 0)
            /\ cb.kind # "Ok" => (ret = DefaultOf(T) /\ slot.code # 0)

\* a call has returned Ok(Some(0)): the value is the default value, the slot is success
C13_Witness ==
    /\ pc = "returned" /\ call.cb = ReturnsOk(OptionU32(TRUE, 0))
    /\ ret = DefaultOf("Option<u32>") /\ slot.code = 0


----------------------------------------------------------------------------
\* C20: the containment region also covers the conversions.  When the
\* operation returns Ok(v) and v.into_ffi_value() panics, or returns Err(e)
\* and e.into() panics, the call is handled exactly like a panic of the
\* operation: in default mode the only way on is the return with the reserved
\* fault code in the slot and R's default value; in abort mode the only way
\* on is the abort of the process; and the panic never leaves the call.
PanicsInConversion(cb) ==
    \/ cb.kind = "Ok" /\ ~MarshalCompletes(cb)
    \/ cb.kind = "Err" /\ ~MappingCompletes(cb)
C20_ConversionPanicsAreContained ==
    PanicsInConversion(call.cb) =>
        /\ proc \in {"alive", "aborted"}
        /\ proc = "aborted" => call.mode = "abort"
        /\ pc = "returned" =>
              /\ call.mode = "default"
              /\ slot = [code |-> RESERVED_FAULT_CODE, message |-> <<PanicTextOf(call.cb)>>]
              /\ ret = DefaultOf(call.cb.R)
        /\ (pc = "running" /\ proc = "alive") =>
              /\ ~ENABLED ReturnCompleted
              /\ ENABLED ReturnCaught <=> call.mode = "default"
              /\ ENABLED AbortCaught <=> call.mode = "abort"

\* a default-mode call whose Ok value failed to serialize has returned
C20_Witness ==
    /\ pc = "returned" /\ call.mode = "default"
    /\ call.cb = ReturnsOk(VecT(<<JsonT(1), Unserializable>>))
    /\ slot.code = RESERVED_FAULT_CODE /\ ret = NULL /\ proc = "alive"


----------------------------------------------------------------------------
\* C15: termination.  A call whose operation diverges never returns (and
\* never aborts): it stays in the callback for ever.  A call whose operation
\* terminates (Ok, Err or panic) terminates: in default mode it returns to
\* the caller, in abort mode it returns to the caller or aborts the process.
OperationTerminates == pc = "running" /\ call.cb.kind \in {"Ok", "Err", "Panic"}
C15_CallTerminatesIffOperationDoes ==
    /\ [](call.cb.kind = "Diverges" => (pc = "running" /\ proc = "alive"))
    /\ (OperationTerminates /\ call.mode = "default") ~> (pc = "returned")
    /\ (OperationTerminates /\ call.mode = "abort") ~> (pc = "returned" \/ proc = "aborted")

\* an abort-mode call is inside an operation that diverges
C15_Witness ==
    /\ pc = "running" /\ proc = "alive"
    /\ call.mode = "abort" /\ call.cb.kind = "Diverges"
    /\ ~ENABLED NextCalls


----------------------------------------------------------------------------
\* C14: a Vec of an integer type marshaled through the JSON path gives a
\* new string holding the compact JSON array text of its elements in order:
\* "[", the decimal elements separated by "," alone, "]"; [1, 2, 3] gives
\* exactly "[1,2,3]" and the empty Vec gives "[]".  The default value of a
\* Vec is the null pointer.
RECURSIVE CommaSeparated(_, _)
CommaSeparated(elems, upto) ==
    IF upto = 0 THEN ""
    ELSE IF upto = 1 THEN ToString(elems[1].n)
    ELSE CommaSeparated(elems, upto - 1) \o "," \o ToString(elems[upto].n)
CompactArrayText(elems) == "[" \o CommaSeparated(elems, Len(elems)) \o "]"
C14_VecOfIntegersIsCompactJson ==
    given.ty = "Vec<T>" =>
        /\ yielded.fn = "into_ffi_value" =>
              /\ ~yielded.panics
              /\ yielded.o # NULL /\ yielded.o \in DOMAIN cstrings
              /\ cstrings[yielded.o] = CompactArrayText(given.elems)
              /\ given.elems = <<JsonT(1), JsonT(2), JsonT(3)>> => cstrings[yielded.o] = "[1,2,3]"
              /\ given.elems = <<JsonT(3), JsonT(-1)>> => cstrings[yielded.o] = "[3,-1]"
              /\ given.elems = <<>> => cstrings[yielded.o] = "[]"
        /\ yielded.fn = "ffi_default" => yielded.o = NULL

\* the Vec [1, 2, 3] has been marshaled to a string holding "[1,2,3]"
C14_Witness ==
    /\ given = VecT(<<JsonT(1), JsonT(2), JsonT(3)>>)
    /\ yielded.fn = "into_ffi_value"
    /\ yielded.o \in DOMAIN cstrings /\ cstrings[yielded.o] = "[1,2,3]"


----------------------------------------------------------------------------
\* C16 as stated: is_valid_for_places(b) holds if and only if b is 12 bytes
\* long and every byte is one of 0-9, a-z, A-Z, '_', '-'; BASE64URL_BYTES
\* holds 1 exactly at those byte values and 0 at all 251 others.
IsBase64Url(b) ==
    \/ b \in 48..57 \/ b \in 97..122 \/ b \in 65..90
    \/ b = 95 \/ b = 45
ValidForPlacesWithZeros(others) ==
    /\ \A b \in 0..255 : BASE64URL_BYTES[b + 1] = (IF IsBase64Url(b) THEN 1 ELSE 0)
    /\ Len(BASE64URL_BYTES) = 256
    /\ Cardinality({b \in 0..255 : BASE64URL_BYTES[b + 1] = 0}) = others
    /\ yielded.fn = "is_valid_for_places" =>
          /\ yielded.o <=> (Len(given) = 12 /\ \A i \in 1..Len(given) : IsBase64Url(given[i]))
          /\ given \in {TestValid1, TestValid2} => yielded.o
          /\ given \in {TestTooLong, TestTooShort, TestSpace, TestUnicode, TestInvalidUtf8}
                => ~yielded.o
C16_Original == ValidForPlacesWithZeros(251)

\* C16: is_valid_for_places(b) holds if and only if b is 12 bytes long and
\* every byte is one of 0-9, a-z, A-Z, '_', '-'; BASE64URL_BYTES holds 1
\* exactly at those 64 byte values and 0 at all 192 others, so too long, too
\* short, space, non-ASCII and invalid-UTF-8 inputs are rejected.
C16_ValidForPlaces == ValidForPlacesWithZeros(192)

\* a string of the right length with one byte that is not valid UTF-8 was rejected
C16_Witness ==
    /\ yielded.fn = "is_valid_for_places" /\ ~yielded.o
    /\ given = TestInvalidUtf8 /\ Len(given) = 12


----------------------------------------------------------------------------
\* C17: Guid equality is equality of content.  Whatever a and b, and from
\* whichever of &str, String, &[u8], Vec<u8> a Guid is built (where it can be
\* built), Guid(a) == Guid(b), Guid(a) == b and b == Guid(a), b a str, &str,
\* String, [u8], &[u8] or Vec<u8>, hold if and only if a and b are the same
\* bytes, and != holds if and only if they are not; and the Guid built has
\* the Fast representation exactly when a is valid for places.
C17_GuidEqualityIsContentEquality ==
    (yielded.fn = "eq" /\ ~yielded.panics) =>
        /\ yielded.o.eq <=> (given.a = given.b)
        /\ yielded.o.eq_rev <=> (given.a = given.b)
        /\ yielded.o.ne <=> (given.a # given.b)
        /\ yielded.o.ne_rev <=> (given.a # given.b)
        /\ yielded.o.fast <=>
              (Len(given.a) = 12 /\ \A i \in 1..Len(given.a) : IsBase64Url(given.a[i]))

\* a Guid built from a &str and a Guid built from a Vec<u8> of the same valid
\* bytes were compared, and found equal
C17_Witness ==
    /\ yielded.fn = "eq" /\ ~yielded.panics
    /\ yielded.o.source = "&str" /\ yielded.o.other_is_guid /\ yielded.o.other = "Vec<u8>"
    /\ given.a = given.b /\ yielded.o.fast /\ yielded.o.eq /\ ~yielded.o.ne


----------------------------------------------------------------------------
\* C21: places_note_observation never reports failure and never applies a
\* partly decoded observation.  When the JSON text does not decode, the
\* database (every database) is left as it was; when it decodes and
\* apply_observation returns Ok, the decoded visit is added exactly once to
\* the connection's database and to no other; when apply_observation
\* returns an error the database is left as it was; and in each of the three
\* cases the function returns normally, handing nothing back to the caller:
\* no value, no stored error, no change to what the caller holds.
Decodes(text) == text = "{\"url\":\"a\"}"
C21_NoteObservationOnlyLogs ==
    [][(last'.op = "places_note_observation" /\ last'.outcome # "Panic") =>
         LET conn == last'.arg
         IN  /\ proc' = "alive"
             /\ last'.ret = NULL /\ slot' = slot /\ ret' = ret
             /\ heldHandles' = heldHandles /\ heldStrings' = heldStrings
             /\ cstrings' = cstrings
             /\ DOMAIN handles' = DOMAIN handles
             /\ \A h \in DOMAIN handles \ {conn} : handles'[h] = handles[h]
             /\ ~Decodes(last'.text) => (last'.outcome = "Err" /\ handles' = handles)
             /\ (Decodes(last'.text) /\ last'.outcome = "Err") => handles' = handles
             /\ (Decodes(last'.text) /\ last'.outcome = "Ok") =>
                   handles'[conn].visits = Append(handles[conn].visits, "a")]_vars

\* an observation whose JSON is cut short has been noted: the call returned
\* and the database holds no visit
C21_Witness ==
    /\ last.op = "places_note_observation" /\ last.outcome = "Err"
    /\ last.text = "{\"url\":" /\ proc = "alive"
    /\ last.arg \in DOMAIN handles /\ handles[last.arg].visits = <<>>


----------------------------------------------------------------------------
(* C22: places_connection_new gives PlacesDb::open no key exactly when its
   encryption_key argument is the null pointer, the empty string, or bytes
   that are not valid UTF-8, and Some of the argument's text otherwise; a
   db_path or a search text that is not valid UTF-8 reaches the library as the
   empty string, and the call goes on to whatever the library does with it. *)
C22_KeyAndTextGivenOn ==
    /\ last.op = "places_connection_new" =>
          /\ last.key = <<>> <=>
                \/ last.keyptr = <<>>
                \/ last.keyptr = <<CStr("")>>
                \/ last.keyptr = <<NotUtf8>>
          /\ last.key # <<>> => last.key = <<last.keyptr[1].text>>
          /\ ~last.cstr.utf8 => last.text = ""
          /\ last.cstr.utf8 => last.text = last.cstr.text
    /\ last.op = "places_query_autocomplete" =>
          /\ ~last.cstr.utf8 => last.text = ""
          /\ last.cstr.utf8 => last.text = last.cstr.text

\* a database was opened from a path and a key that are both not valid UTF-8:
\* the path was the empty string and there was no key
C22_Witness ==
    /\ last.op = "places_connection_new" /\ last.outcome = "Ok" /\ last.ret # NULL
    /\ last.cstr = NotUtf8 /\ last.keyptr = <<NotUtf8>>
    /\ last.text = "" /\ last.key = <<>>
    /\ last.ret \in DOMAIN handles


----------------------------------------------------------------------------
(* C23: a Guid gives back the text it was made from, on every construction
   path: for a string s, Guid::from_str(s) has as_str() = s, as_bytes() = the
   bytes of s and into_string() = s; for bytes b, try_from_bytes(b) is None
   exactly when b is not valid UTF-8 and otherwise gives a Guid with
   as_bytes() = b; as_str and into_string panic on no Guid that was built,
   the inline representation holding 12 base64url bytes only. *)
C23_GuidRoundTrips ==
    /\ yielded.fn \in {"from", "try_from_bytes"} =>
          /\ yielded.o.built =>
                /\ ~yielded.panics
                /\ yielded.o.as_bytes = given
                /\ yielded.o.as_str = given
                /\ yielded.o.into_string = given
                /\ yielded.o.into_vec = given
                /\ yielded.o.guid.fast =>
                      /\ Len(yielded.o.guid.bytes) = 12
                      /\ \A i \in 1..12 : IsBase64Url(yielded.o.guid.bytes[i])
    /\ yielded.fn = "from" /\ yielded.o.source = "&str" => yielded.o.built
    /\ yielded.fn = "try_from_bytes" => (~yielded.o.built <=> ~from_utf8_is_ok(given))

\* try_from_bytes gave None for the test's bytes that are not valid UTF-8
C23_WitnessNone ==
    /\ yielded.fn = "try_from_bytes" /\ given = TestInvalidUtf8 /\ ~yielded.o.built

\* from_str made an inline Guid and a heap Guid, and each gave its text back
C23_Witness ==
    /\ yielded.fn = "from" /\ yielded.o.source = "&str" /\ given = TestValid2
    /\ yielded.o.guid.fast /\ yielded.o.as_str = TestValid2
C23_WitnessHeap ==
    /\ yielded.fn = "from" /\ yielded.o.source = "&str" /\ given = TestUnicode
    /\ ~yielded.o.guid.fast /\ yielded.o.into_string = TestUnicode

============================================================================
